---- MODULE Spec2Model ----
(***************************************************************************)
(* Model of pulsar-client-cpp/lib/Authentication.cc: AuthFactory's two     *)
(* dlopen-based create overloads, the process-wide registry of loaded      *)
(* library handles, the atexit hook release_handles, and the parsing of    *)
(* the "k:v,k:v" parameter string in the string-to-map fallback.           *)
(*                                                                         *)
(* Client threads run create concurrently; the main thread may call        *)
(* release_handles directly and may leave the process through exit(),      *)
(* which runs the registered atexit hooks while the client threads are     *)
(* still running.  Each statement group of the source between two lock     *)
(* operations is one step.                                                 *)
(***************************************************************************)
EXTENDS Integers, Sequences, FiniteSets, TLC

\* ---------------------------------------------------------------- bounds
MaxCalls == 2       \* create calls started in one run (over all threads)
MaxReleases == 2    \* direct calls of release_handles in one run
MaxStrLen == 5      \* length of the strings enumerated for the parser
MaxSegs == 3        \* segments of the strings put together segment by segment

\* Two client threads (the smallest number that interleaves) and the main thread.
Threads == {"t1", "t2"}
MainThread == "main"
Free == "free"

\* A NULL pointer: a failed dlopen (line 140) or dlsym (lines 147, 183).
NULL == 0

\* Characters of the parameter strings; a string is a sequence of them.
Chars == {"k", "v", ":", ","}

\* ------------------------------------------------- the plugin modules
(* The files a caller may name.  What dlopen and dlsym answer for them is  *)
(* the environment of create:                                              *)
(*   nolib     no such file, dlopen fails                                  *)
(*   neither   loads, exports neither create nor createFromMap             *)
(*   maponly   loads, exports createFromMap only                           *)
(*   both      loads, exports both entrypoints                             *)
(*   nullboth  loads, exports both, and its constructors return NULL       *)
Paths == {"nolib", "neither", "maponly", "both", "nullboth"}

Loadable(p) == p # "nolib"

Exports(p, sym) ==
    CASE sym = "create"        -> p \in {"both", "nullboth"}
      [] sym = "createFromMap" -> p \in {"maponly", "both", "nullboth"}
      [] OTHER                 -> FALSE

CtorReturnsNull(p) == p = "nullboth"

\* The arguments the callers pass with path p (a ParamMap is a set of
\* <<key, value>> pairs with unique keys).  The arguments never steer create,
\* they are only handed on; they vary for the module on which both overloads
\* hand them to the same constructor.
CallStrings(p) ==
    IF p = "maponly"
    THEN { <<"k", ":", "v">>,
           <<"b", ",", "e", ":", "1", ":", "2", ",", "o", ":", "y">> }
    ELSE { <<"k", ":", "v">> }

CallMaps(p) ==
    IF p = "maponly" THEN { {}, { << <<"k">>, <<"v">> >> } } ELSE { {} }

\* ------------------------------------------------------------ results
\* AuthenticationPtr(NULL): the absent strategy.
NullAuth == [ok |-> FALSE, path |-> "none", sym |-> "none", s |-> <<>>, m |-> {}]

\* What the plugin's constructor sym of module p returns for its argument
\* (s for create, m for createFromMap).
PluginCtor(p, sym, s, m) ==
    IF CtorReturnsNull(p) THEN NullAuth
    ELSE [ok |-> TRUE, path |-> p, sym |-> sym, s |-> s, m |-> m]

\* ------------------------------------------------------------- parsing
\* boost::algorithm::split(out, s, is_any_of(sep)) with token_compress_off:
\* n separators give n+1 tokens, empty ones included.
RECURSIVE Split(_, _)
Split(s, sep) ==
    IF s = <<>> THEN << <<>> >>
    ELSE LET rest == Split(Tail(s), sep)
         IN  IF Head(s) = sep
             THEN << <<>> >> \o rest
             ELSE << <<Head(s)>> \o Head(rest) >> \o Tail(rest)

KvAcceptedLoose(kv) == Len(kv) >= 2
\* line 157: if (kv.size() == 2)
KvAccepted(kv) == Len(kv) = 2

MapPutKeepsFirst(m, k, v) ==
    IF \E p \in m : p[1] = k THEN m ELSE m \cup { <<k, v>> }
\* line 158: paramMap[kv[0]] = kv[1]
MapPut(m, k, v) == { p \in m : p[1] # k } \cup { <<k, v>> }

\* lines 154-160: the loop over the comma-separated segments
RECURSIVE ParseSegments(_, _)
ParseSegments(segs, m) ==
    IF segs = <<>> THEN m
    ELSE LET kv == Split(Head(segs), ":")
         IN  ParseSegments(Tail(segs),
                           IF KvAccepted(kv) THEN MapPut(m, kv[1], kv[2]) ELSE m)

\* lines 150-161: ParamMap paramMap; if (!authParamsString.empty()) {...}
ParamsFromString(s) ==
    IF s = <<>> THEN {} ELSE ParseSegments(Split(s, ","), {})

\* --------------------------------------------------------------- state
VARIABLES
    mutex,                      \* boost::mutex mutex (line 117): its holder, or Free
    isShutdownHookRegistered_,  \* line 119
    loadedLibrariesHandles_,    \* line 118: the sequence of registered handles
    atexitCalls,                \* how many times atexit(release_handles) was called
    hooksPending,               \* registered atexit hooks that exit() has not yet run
    opens,                      \* how many dlopen calls have succeeded
    dlcloseLog,                 \* the handles passed to dlclose, in order
    th,                         \* per client thread: its position in create and its locals
    rel,                        \* the main thread's position in release_handles
    proc,                       \* "running", "exiting" (in exit()), "exited", "crashed"
    calls,                      \* create calls started
    releaseCalls,               \* direct calls of release_handles started
    parseIn,                    \* the parser's input (parser specification only)
    parseOut,                   \* the parser's output
    parsed                      \* whether the parser has run

regVars   == <<mutex, isShutdownHookRegistered_, loadedLibrariesHandles_,
               atexitCalls, hooksPending, opens, dlcloseLog>>
parseVars == <<parseIn, parseOut, parsed>>
vars      == <<mutex, isShutdownHookRegistered_, loadedLibrariesHandles_,
               atexitCalls, hooksPending, opens, dlcloseLog, th, rel, proc,
               calls, releaseCalls, parseIn, parseOut, parsed>>

\* A thread that is not inside create.  Beside the locals of create (path,
\* str, params, handle, fn: whether createAuthentication is non-NULL, result)
\* a thread keeps what its current call has done so far: loads (dlopen calls),
\* regs (how many handles it appended), resolved (symbols it passed to dlsym), ctors
\* (plugin constructors it invoked), usedReleased (whether it called dlsym on,
\* or an entrypoint of, a handle already passed to dlclose), hooks (how many
\* times it ran the hook check of lines 133 and 171).
IdleThread ==
    [pc |-> "idle", entry |-> "none", path |-> "none", str |-> <<>>, params |-> {},
     handle |-> NULL, fn |-> FALSE, result |-> NullAuth,
     loads |-> 0, regs |-> 0, resolved |-> <<>>, ctors |-> <<>>,
     usedReleased |-> FALSE, hooks |-> 0]

Init ==
    /\ mutex = Free
    /\ isShutdownHookRegistered_ = FALSE
    /\ loadedLibrariesHandles_ = <<>>
    /\ atexitCalls = 0
    /\ hooksPending = 0
    /\ opens = 0
    /\ dlcloseLog = <<>>
    /\ th = [t \in Threads |-> IdleThread]
    /\ rel = [pc |-> "idle", i |-> 1, n0 |-> 0, closedNow |-> 0]
    /\ proc = "running"
    /\ calls = 0
    /\ releaseCalls = 0
    /\ parseIn = <<>>
    /\ parseOut = {}
    /\ parsed = FALSE

\* The process has ended (how: "exited" or "crashed"): its threads and its
\* memory, the registry included, are gone.
ProcessGone(how) ==
    /\ proc' = how
    /\ mutex' = Free
    /\ isShutdownHookRegistered_' = FALSE
    /\ loadedLibrariesHandles_' = <<>>
    /\ atexitCalls' = 0
    /\ hooksPending' = 0
    /\ opens' = 0
    /\ dlcloseLog' = <<>>
    /\ th' = [t \in Threads |-> IdleThread]
    /\ rel' = [pc |-> "idle", i |-> 1, n0 |-> 0, closedNow |-> 0]
    /\ calls' = 0
    /\ releaseCalls' = 0
    /\ UNCHANGED parseVars

\* The client threads run until the process has ended.
Alive == proc \in {"running", "exiting"}

Closed == { dlcloseLog[i] : i \in 1..Len(dlcloseLog) }

\* ------------------------------------------------ helpers of create
HookNeededNever(flag) == FALSE
HookNeededAlways(flag) == TRUE
\* lines 133, 171: if (!AuthFactory::isShutdownHookRegistered_)
HookNeeded(flag) == ~flag

FlagLeftUnset == FALSE
\* lines 135, 173: AuthFactory::isShutdownHookRegistered_ = true
FlagAfterRegister == TRUE

\* lines 140, 178: if (handle != NULL)
LoadFailedNever(h) == FALSE
LoadFailed(h) == h = NULL

RegisterHandleDropped(hs, h) == hs
RegisterHandleOverwrites(hs, h) == <<h>>
\* lines 143, 180: loadedLibrariesHandles_.push_back(handle)
RegisterHandle(hs, h) == Append(hs, h)

\* lines 147, 183: if (createAuthentication != NULL)
EntrypointResolvedAlways(fn) == TRUE
EntrypointResolved(fn) == fn

FallbackParamsEmpty(s) == {}
\* lines 150-162: the ParamMap handed to create(dynamicLibPath, paramMap)
FallbackParams(s) == ParamsFromString(s)

WrapResultDisabled(auth) ==
    IF auth.ok THEN auth
    ELSE [ok |-> TRUE, path |-> "none", sym |-> "none", s |-> <<>>, m |-> {}]
\* lines 165, 187: return AuthenticationPtr(auth)
WrapResult(auth) == auth

\* dlopen(path, RTLD_LAZY), lines 139, 177: NULL, or a fresh reference to the
\* module; every successful dlopen is one reference that one dlclose gives back.
Dlopen(p) == IF Loadable(p) THEN opens + 1 ELSE NULL

\* dlsym(handle, sym), lines 146, 182: whether it returns a non-NULL pointer.
\* On a handle already passed to dlclose the call is undefined: the stale
\* module may still answer, or the lookup fails (or the process dies, Crash).
DlsymResults(h, p, sym) ==
    IF h \in Closed THEN {Exports(p, sym), FALSE} ELSE {Exports(p, sym)}

\* lines 131-137 and 169-175: the body of the first critical section
EnsureHook ==
    IF HookNeeded(isShutdownHookRegistered_)
    THEN /\ atexitCalls' = atexitCalls + 1
         /\ hooksPending' = hooksPending + 1
         /\ isShutdownHookRegistered_' = FlagAfterRegister
    ELSE UNCHANGED <<atexitCalls, hooksPending, isShutdownHookRegistered_>>

\* ------------------------------------- callers: entering and leaving create
\* A client thread calls create(dynamicLibPath, authParamsString), line 130.
CallCreateStr(t) ==
    /\ proc = "running"
    /\ th[t].pc = "idle"
    /\ calls < MaxCalls
    /\ \E p \in Paths : \E s \in CallStrings(p) :
          th' = [th EXCEPT ![t] = [IdleThread EXCEPT !.pc = "s_lock1", !.entry = "str",
                                                     !.path = p, !.str = s]]
    /\ calls' = calls + 1
    /\ UNCHANGED <<regVars, rel, proc, releaseCalls, parseVars>>

\* A client thread calls create(dynamicLibPath, params), line 168.
CallCreateMap(t) ==
    /\ proc = "running"
    /\ th[t].pc = "idle"
    /\ calls < MaxCalls
    /\ \E p \in Paths : \E m \in CallMaps(p) :
          th' = [th EXCEPT ![t] = [IdleThread EXCEPT !.pc = "m_lock1", !.entry = "map",
                                                     !.path = p, !.params = m]]
    /\ calls' = calls + 1
    /\ UNCHANGED <<regVars, rel, proc, releaseCalls, parseVars>>

\* ------------------------------------------ the Disabled strategy, 45-110
\* lines 45-75: what AuthenticationDataProvider answers unless a subclass
\* overrides it
ProviderDefaults ==
    [hasDataForTls      |-> FALSE, getTlsCertificates |-> "none",
     getTlsPrivateKey   |-> "none",
     hasDataForHttp     |-> FALSE, getHttpAuthType    |-> "none",
     getHttpHeaders     |-> "none",
     hasDataFromCommand |-> FALSE, getCommandData     |-> "none"]

\* lines 84-88: AuthDisabledData ignores its params and overrides nothing
AuthDisabledData(params) == ProviderDefaults

\* lines 101-103: AuthDisabled::getAuthMethodName()
AuthDisabledMethodName == "none"

AuthDisabledCreateNull(params) == NullAuth
\* lines 96-99: AuthDisabled::create(params), a new AuthDisabled holding a new
\* AuthDisabledData
AuthDisabledCreate(params) ==
    [ok |-> TRUE, path |-> "none", sym |-> "AuthDisabled", s |-> <<>>, m |-> params]

\* What a strategy answers to getAuthMethodName() and through its data
\* provider; a plugin's answers are its own and are not modelled.
MethodNameOf(auth) ==
    IF auth.ok /\ auth.sym = "AuthDisabled" THEN AuthDisabledMethodName ELSE "plugin"
DataOf(auth) ==
    IF auth.ok /\ auth.sym = "AuthDisabled" THEN AuthDisabledData(auth.m)
    ELSE [ p \in DOMAIN ProviderDefaults |-> "plugin" ]

\* A client thread calls AuthFactory::Disabled(), lines 107-110: no lock, no
\* access to the registry, an empty ParamMap.
CallDisabled(t) ==
    /\ proc = "running"
    /\ th[t].pc = "idle"
    /\ calls < MaxCalls
    /\ th' = [th EXCEPT ![t] = [IdleThread EXCEPT !.pc = "done", !.entry = "disabled",
                                                 !.result = AuthDisabledCreate({})]]
    /\ calls' = calls + 1
    /\ UNCHANGED <<regVars, rel, proc, releaseCalls, parseVars>>

\* The caller has taken the returned AuthenticationPtr and goes on.  (A call
\* that has returned, pc = "done", has lost its locals handle and
\* createAuthentication; what it did stays recorded until here.)
Return(t) ==
    /\ Alive
    /\ th[t].pc = "done"
    /\ th' = [th EXCEPT ![t] = IdleThread]
    /\ UNCHANGED <<regVars, rel, proc, calls, releaseCalls, parseVars>>

\* ------------------------- create(dynamicLibPath, authParamsString), 130-166
\* line 132: lock_guard lock(mutex)
StrLock1(t) ==
    /\ Alive
    /\ th[t].pc = "s_lock1"
    /\ mutex = Free
    /\ mutex' = t
    /\ th' = [th EXCEPT ![t].pc = "s_hook"]
    /\ UNCHANGED <<isShutdownHookRegistered_, loadedLibrariesHandles_, atexitCalls,
                   hooksPending, opens, dlcloseLog, rel, proc, calls, releaseCalls,
                   parseVars>>

\* The hook block without the closing brace of line 137: the lock_guard of
\* line 132 would live on into dlopen.
StrHookKeepsLock(t) ==
    /\ Alive
    /\ th[t].pc = "s_hook"
    /\ mutex = t
    /\ EnsureHook
    /\ th' = [th EXCEPT ![t].pc = "s_dlopen", ![t].hooks = @ + 1]
    /\ UNCHANGED <<mutex, loadedLibrariesHandles_, opens, dlcloseLog, rel, proc, calls,
                   releaseCalls, parseVars>>

\* lines 133-137: register the hook once, leave the critical section
StrHook(t) ==
    /\ Alive
    /\ th[t].pc = "s_hook"
    /\ mutex = t
    /\ EnsureHook
    /\ mutex' = Free
    /\ th' = [th EXCEPT ![t].pc = "s_dlopen", ![t].hooks = @ + 1]
    /\ UNCHANGED <<loadedLibrariesHandles_, opens, dlcloseLog, rel, proc, calls,
                   releaseCalls, parseVars>>

\* lines 138-140: dlopen outside the lock; a NULL handle returns NULL (165)
StrDlopen(t) ==
    /\ Alive
    /\ th[t].pc = "s_dlopen"
    /\ LET h == Dlopen(th[t].path)
       IN  /\ opens' = IF h = NULL THEN opens ELSE opens + 1
           /\ th' = [th EXCEPT ![t].handle = h,
                               ![t].loads = @ + 1,
                               ![t].result = IF LoadFailed(h) THEN WrapResult(NullAuth) ELSE @,
                               ![t].pc = IF LoadFailed(h) THEN "done" ELSE "s_lock2"]
    /\ UNCHANGED <<mutex, isShutdownHookRegistered_, loadedLibrariesHandles_, atexitCalls,
                   hooksPending, dlcloseLog, rel, proc, calls, releaseCalls, parseVars>>

\* line 142: lock_guard lock(mutex)
StrLock2(t) ==
    /\ Alive
    /\ th[t].pc = "s_lock2"
    /\ mutex = Free
    /\ mutex' = t
    /\ th' = [th EXCEPT ![t].pc = "s_push"]
    /\ UNCHANGED <<isShutdownHookRegistered_, loadedLibrariesHandles_, atexitCalls,
                   hooksPending, opens, dlcloseLog, rel, proc, calls, releaseCalls,
                   parseVars>>

\* The append of the string path with its lock_guard living on to the end of
\* the if block, as on the map path.
StrPushKeepsLock(t) ==
    /\ Alive
    /\ th[t].pc = "s_push"
    /\ mutex = t
    /\ loadedLibrariesHandles_' = RegisterHandle(loadedLibrariesHandles_, th[t].handle)
    /\ th' = [th EXCEPT ![t].pc = "s_dlsym", ![t].regs = @ + 1]
    /\ UNCHANGED <<mutex, isShutdownHookRegistered_, atexitCalls, hooksPending, opens,
                   dlcloseLog, rel, proc, calls, releaseCalls, parseVars>>

\* lines 143-144: push_back, leave the critical section
StrPush(t) ==
    /\ Alive
    /\ th[t].pc = "s_push"
    /\ mutex = t
    /\ loadedLibrariesHandles_' = RegisterHandle(loadedLibrariesHandles_, th[t].handle)
    /\ mutex' = Free
    /\ th' = [th EXCEPT ![t].pc = "s_dlsym", ![t].regs = @ + 1]
    /\ UNCHANGED <<isShutdownHookRegistered_, atexitCalls, hooksPending, opens,
                   dlcloseLog, rel, proc, calls, releaseCalls, parseVars>>

\* lines 145-147: dlsym(handle, "create"), without the lock
StrDlsym(t) ==
    /\ Alive
    /\ th[t].pc = "s_dlsym"
    /\ \E f \in DlsymResults(th[t].handle, th[t].path, "create") :
          th' = [th EXCEPT ![t].fn = f,
                           ![t].resolved = Append(@, "create"),
                           ![t].usedReleased = @ \/ th[t].handle \in Closed,
                           ![t].pc = IF EntrypointResolved(f) THEN "s_invoke" ELSE "s_parse"]
    /\ UNCHANGED <<regVars, rel, proc, calls, releaseCalls, parseVars>>

\* lines 148, 165: auth = createAuthentication(authParamsString); return it
StrInvoke(t) ==
    /\ Alive
    /\ th[t].pc = "s_invoke"
    /\ LET auth == PluginCtor(th[t].path, "create", th[t].str, {})
       IN  th' = [th EXCEPT ![t].ctors = Append(@, [sym |-> "create", s |-> th[t].str, m |-> {}]),
                            ![t].result = WrapResult(auth),
                            ![t].usedReleased = @ \/ th[t].handle \in Closed,
                            ![t].handle = NULL,
                            ![t].fn = FALSE,
                            ![t].pc = "done"]
    /\ UNCHANGED <<regVars, rel, proc, calls, releaseCalls, parseVars>>

\* lines 150-162: parse the string and call create(dynamicLibPath, paramMap)
StrParse(t) ==
    /\ Alive
    /\ th[t].pc = "s_parse"
    /\ th' = [th EXCEPT ![t].params = FallbackParams(th[t].str),
                        ![t].handle = NULL,
                        ![t].fn = FALSE,
                        ![t].pc = "m_lock1"]
    /\ UNCHANGED <<regVars, rel, proc, calls, releaseCalls, parseVars>>

\* ------------------------------- create(dynamicLibPath, params), 168-188
\* line 170: lock_guard lock(mutex)
MapLock1(t) ==
    /\ Alive
    /\ th[t].pc = "m_lock1"
    /\ mutex = Free
    /\ mutex' = t
    /\ th' = [th EXCEPT ![t].pc = "m_hook"]
    /\ UNCHANGED <<isShutdownHookRegistered_, loadedLibrariesHandles_, atexitCalls,
                   hooksPending, opens, dlcloseLog, rel, proc, calls, releaseCalls,
                   parseVars>>

\* lines 171-175: register the hook once, leave the critical section
MapHook(t) ==
    /\ Alive
    /\ th[t].pc = "m_hook"
    /\ mutex = t
    /\ EnsureHook
    /\ mutex' = Free
    /\ th' = [th EXCEPT ![t].pc = "m_dlopen", ![t].hooks = @ + 1]
    /\ UNCHANGED <<loadedLibrariesHandles_, opens, dlcloseLog, rel, proc, calls,
                   releaseCalls, parseVars>>

\* lines 176-178: dlopen outside the lock; a NULL handle returns NULL (187)
MapDlopen(t) ==
    /\ Alive
    /\ th[t].pc = "m_dlopen"
    /\ LET h == Dlopen(th[t].path)
       IN  /\ opens' = IF h = NULL THEN opens ELSE opens + 1
           /\ th' = [th EXCEPT ![t].handle = h,
                               ![t].loads = @ + 1,
                               ![t].result = IF LoadFailed(h) THEN WrapResult(NullAuth) ELSE @,
                               ![t].pc = IF LoadFailed(h) THEN "done" ELSE "m_lock2"]
    /\ UNCHANGED <<mutex, isShutdownHookRegistered_, loadedLibrariesHandles_, atexitCalls,
                   hooksPending, dlcloseLog, rel, proc, calls, releaseCalls, parseVars>>

\* line 179: lock_guard lock(mutex), held to the end of the block (line 186)
MapLock2(t) ==
    /\ Alive
    /\ th[t].pc = "m_lock2"
    /\ mutex = Free
    /\ mutex' = t
    /\ th' = [th EXCEPT ![t].pc = "m_push"]
    /\ UNCHANGED <<isShutdownHookRegistered_, loadedLibrariesHandles_, atexitCalls,
                   hooksPending, opens, dlcloseLog, rel, proc, calls, releaseCalls,
                   parseVars>>

\* The append of the map path with its own short block, as on the string path.
MapPushUnlocks(t) ==
    /\ Alive
    /\ th[t].pc = "m_push"
    /\ mutex = t
    /\ loadedLibrariesHandles_' = RegisterHandle(loadedLibrariesHandles_, th[t].handle)
    /\ mutex' = Free
    /\ th' = [th EXCEPT ![t].pc = "m_dlsym", ![t].regs = @ + 1]
    /\ UNCHANGED <<isShutdownHookRegistered_, atexitCalls, hooksPending, opens,
                   dlcloseLog, rel, proc, calls, releaseCalls, parseVars>>

\* line 180: push_back, the lock stays held
MapPush(t) ==
    /\ Alive
    /\ th[t].pc = "m_push"
    /\ mutex = t
    /\ loadedLibrariesHandles_' = RegisterHandle(loadedLibrariesHandles_, th[t].handle)
    /\ th' = [th EXCEPT ![t].pc = "m_dlsym", ![t].regs = @ + 1]
    /\ UNCHANGED <<mutex, isShutdownHookRegistered_, atexitCalls, hooksPending, opens,
                   dlcloseLog, rel, proc, calls, releaseCalls, parseVars>>

\* lines 181-183: dlsym(handle, "createFromMap") under the lock; when it is
\* NULL the block ends (186: unlock) and NULL is returned (187)
MapDlsym(t) ==
    /\ Alive
    /\ th[t].pc = "m_dlsym"
    /\ mutex = t
    /\ \E f \in DlsymResults(th[t].handle, th[t].path, "createFromMap") :
          /\ th' = [th EXCEPT ![t].fn = f,
                              ![t].handle = IF EntrypointResolved(f) THEN @ ELSE NULL,
                              ![t].resolved = Append(@, "createFromMap"),
                              ![t].usedReleased = @ \/ th[t].handle \in Closed,
                              ![t].result = IF EntrypointResolved(f) THEN @
                                            ELSE WrapResult(NullAuth),
                              ![t].pc = IF EntrypointResolved(f) THEN "m_invoke" ELSE "done"]
          /\ mutex' = IF EntrypointResolved(f) THEN mutex ELSE Free
    /\ UNCHANGED <<isShutdownHookRegistered_, loadedLibrariesHandles_, atexitCalls,
                   hooksPending, opens, dlcloseLog, rel, proc, calls, releaseCalls,
                   parseVars>>

\* lines 184-187: auth = createAuthentication(params) under the lock; unlock; return
MapInvoke(t) ==
    /\ Alive
    /\ th[t].pc = "m_invoke"
    /\ mutex = t
    /\ LET auth == PluginCtor(th[t].path, "createFromMap", <<>>, th[t].params)
       IN  th' = [th EXCEPT ![t].ctors = Append(@, [sym |-> "createFromMap", s |-> <<>>,
                                                    m |-> th[t].params]),
                            ![t].result = WrapResult(auth),
                            ![t].usedReleased = @ \/ th[t].handle \in Closed,
                            ![t].handle = NULL,
                            ![t].fn = FALSE,
                            ![t].pc = "done"]
    /\ mutex' = Free
    /\ UNCHANGED <<isShutdownHookRegistered_, loadedLibrariesHandles_, atexitCalls,
                   hooksPending, opens, dlcloseLog, rel, proc, calls, releaseCalls,
                   parseVars>>

\* A thread that calls dlsym on, or an entrypoint of, a module already passed
\* to dlclose may also take the process down (the other outcome of that
\* undefined behaviour).
Crash(t) ==
    /\ Alive
    /\ th[t].pc \in {"s_dlsym", "s_invoke", "m_dlsym", "m_invoke"}
    /\ th[t].handle \in Closed
    /\ ProcessGone("crashed")

\* ------------------------------------------- release_handles, 121-128
ClearForgotten(hs) == hs
\* line 127: loadedLibrariesHandles_.clear()
ClearHandles(hs) == <<>>

\* The main thread calls release_handles directly.
ReleaseCall ==
    /\ proc = "running"
    /\ rel.pc = "idle"
    /\ releaseCalls < MaxReleases
    /\ releaseCalls' = releaseCalls + 1
    /\ rel' = [rel EXCEPT !.pc = "r_lock"]
    /\ UNCHANGED <<regVars, th, proc, calls, parseVars>>

\* The main thread calls exit() (or returns from main): the atexit hooks run
\* while the other threads are still running.
ExitBegin ==
    /\ proc = "running"
    /\ rel.pc = "idle"
    /\ proc' = "exiting"
    /\ UNCHANGED <<regVars, th, rel, calls, releaseCalls, parseVars>>

\* exit() runs one registered hook: release_handles (registered at 134, 172).
ExitRunHook ==
    /\ proc = "exiting"
    /\ rel.pc = "idle"
    /\ hooksPending > 0
    /\ hooksPending' = hooksPending - 1
    /\ rel' = [rel EXCEPT !.pc = "r_lock"]
    /\ UNCHANGED <<mutex, isShutdownHookRegistered_, loadedLibrariesHandles_,
                   atexitCalls, opens, dlcloseLog, th, proc, calls, releaseCalls,
                   parseVars>>

\* exit() has run every hook: the process ends, and every thread with it.
ProcessEnd ==
    /\ proc = "exiting"
    /\ rel.pc = "idle"
    /\ hooksPending = 0
    /\ ProcessGone("exited")

\* release_handles entering its loop without waiting for the mutex.
RelLockNoWait ==
    /\ Alive
    /\ rel.pc = "r_lock"
    /\ mutex' = MainThread
    /\ rel' = [pc |-> "r_loop", i |-> 1, n0 |-> Len(loadedLibrariesHandles_),
               closedNow |-> 0]
    /\ UNCHANGED <<isShutdownHookRegistered_, loadedLibrariesHandles_, atexitCalls,
                   hooksPending, opens, dlcloseLog, th, proc, calls, releaseCalls,
                   parseVars>>

\* line 122: lock_guard lock(mutex); line 123: ite = begin()
RelLock ==
    /\ Alive
    /\ rel.pc = "r_lock"
    /\ mutex = Free
    /\ mutex' = MainThread
    /\ rel' = [pc |-> "r_loop", i |-> 1, n0 |-> Len(loadedLibrariesHandles_),
               closedNow |-> 0]
    /\ UNCHANGED <<isShutdownHookRegistered_, loadedLibrariesHandles_, atexitCalls,
                   hooksPending, opens, dlcloseLog, th, proc, calls, releaseCalls,
                   parseVars>>

\* lines 123-126: one turn of the loop, dlclose(*ite); ite++
RelClose ==
    /\ Alive
    /\ rel.pc = "r_loop"
    /\ mutex = MainThread
    /\ rel.i <= Len(loadedLibrariesHandles_)
    /\ dlcloseLog' = Append(dlcloseLog, loadedLibrariesHandles_[rel.i])
    /\ rel' = [rel EXCEPT !.i = @ + 1, !.closedNow = @ + 1]
    /\ UNCHANGED <<mutex, isShutdownHookRegistered_, loadedLibrariesHandles_,
                   atexitCalls, hooksPending, opens, th, proc, calls, releaseCalls,
                   parseVars>>

\* line 127: the loop has ended, clear(); the lock is still held
RelClear ==
    /\ Alive
    /\ rel.pc = "r_loop"
    /\ mutex = MainThread
    /\ rel.i > Len(loadedLibrariesHandles_)
    /\ loadedLibrariesHandles_' = ClearHandles(loadedLibrariesHandles_)
    /\ rel' = [rel EXCEPT !.pc = "r_unlock"]
    /\ UNCHANGED <<mutex, isShutdownHookRegistered_, atexitCalls, hooksPending, opens,
                   dlcloseLog, th, proc, calls, releaseCalls, parseVars>>

\* line 128: the lock_guard is destroyed, release_handles returns
RelUnlock ==
    /\ Alive
    /\ rel.pc = "r_unlock"
    /\ mutex = MainThread
    /\ mutex' = Free
    /\ rel' = [rel EXCEPT !.pc = "idle"]
    /\ UNCHANGED <<isShutdownHookRegistered_, loadedLibrariesHandles_, atexitCalls,
                   hooksPending, opens, dlcloseLog, th, proc, calls, releaseCalls,
                   parseVars>>

\* ------------------------------------------------------ specifications
\* One step of client thread t inside or around create.
ThreadStep(t) ==
    \/ CallCreateStr(t)
    \/ CallCreateMap(t)
    \/ CallDisabled(t)
    \/ Return(t)
    \/ StrLock1(t)
    \/ StrHook(t)
    \/ StrDlopen(t)
    \/ StrLock2(t)
    \/ StrPush(t)
    \/ StrDlsym(t)
    \/ StrInvoke(t)
    \/ StrParse(t)
    \/ MapLock1(t)
    \/ MapHook(t)
    \/ MapDlopen(t)
    \/ MapLock2(t)
    \/ MapPush(t)
    \/ MapDlsym(t)
    \/ MapInvoke(t)
    \/ Crash(t)

\* One step of the main thread inside release_handles.
ReleaseStep == RelLock \/ RelClose \/ RelClear \/ RelUnlock

(* The program as it runs: the client threads call create concurrently, and  *)
(* release_handles runs only as the atexit hook, when the main thread leaves *)
(* the process.                                                              *)
Next ==
    \/ \E t \in Threads : ThreadStep(t)
    \/ ExitBegin
    \/ ExitRunHook
    \/ ProcessEnd
    \/ ReleaseStep

Spec == Init /\ [][Next]_vars

(* The registry driven directly: one client thread calls create, and the     *)
(* main thread calls release_handles itself, any number of times.            *)
SeqThreads == {"t1"}

SeqNext ==
    \/ \E t \in SeqThreads : ThreadStep(t)
    \/ ReleaseCall
    \/ ReleaseStep

SeqSpec == Init /\ [][SeqNext]_vars

(* The program under fair scheduling.  Each client thread makes one create   *)
(* call, on a module without entrypoints (string overload: the fallback, and *)
(* the early unlock of line 186) or on a module with both (either overload), *)
(* while the main thread may leave the process.  A thread that is inside     *)
(* create, and the main thread inside release_handles, is not held back      *)
(* forever when it can take its next step: dlopen, dlsym and the plugin      *)
(* constructors return.  Nobody is obliged to call create or to exit.        *)
InsideCreate(t) ==
    \/ StrLock1(t) \/ StrHook(t) \/ StrDlopen(t) \/ StrLock2(t) \/ StrPush(t)
    \/ StrDlsym(t) \/ StrInvoke(t) \/ StrParse(t)
    \/ MapLock1(t) \/ MapHook(t) \/ MapDlopen(t) \/ MapLock2(t) \/ MapPush(t)
    \/ MapDlsym(t) \/ MapInvoke(t)

FairCallStr(t) == CallCreateStr(t) /\ th'[t].path \in {"neither", "both"}

FairCallMap(t) == CallCreateMap(t) /\ th'[t].path \in {"both"}

FairThreadStep(t) ==
    \/ FairCallStr(t)
    \/ FairCallMap(t)
    \/ InsideCreate(t)
    \/ Crash(t)

FairNext ==
    \/ \E t \in Threads : FairThreadStep(t)
    \/ ExitBegin
    \/ ExitRunHook
    \/ ProcessEnd
    \/ ReleaseStep

FairSpec ==
    /\ Init /\ [][FairNext]_vars
    /\ \A t \in Threads : WF_vars(InsideCreate(t))
    /\ WF_vars(ReleaseStep)

\* ------------------------------------- the parser as a pure function
\* The caller's string grows one character at a time ...
ParseType ==
    /\ ~parsed
    /\ Len(parseIn) < MaxStrLen
    /\ \E c \in Chars : parseIn' = Append(parseIn, c)
    /\ UNCHANGED <<regVars, th, rel, proc, calls, releaseCalls, parseOut, parsed>>

\* ... and is then parsed as lines 150-161 parse it.
ParseRun ==
    /\ ~parsed
    /\ parseOut' = ParamsFromString(parseIn)
    /\ parsed' = TRUE
    /\ UNCHANGED <<regVars, th, rel, proc, calls, releaseCalls, parseIn>>

ParseNext == ParseType \/ ParseRun

ParseSpec == Init /\ [][ParseNext]_vars

\* The same parser on longer strings: the caller's string is put together
\* from whole segments, joined by commas ...
Segs ==
    { <<"k", ":", "v">>, <<"k", ":", "k">>, <<"v", ":", "k">>,
      <<"k", ":">>, <<"k">>, <<"k", ":", "v", ":", "k">> }

SegCount(s) == IF s = <<>> THEN 0 ELSE Cardinality({ i \in 1..Len(s) : s[i] = "," }) + 1

ParseTypeSegment ==
    /\ ~parsed
    /\ SegCount(parseIn) < MaxSegs
    /\ \E seg \in Segs :
          parseIn' = IF parseIn = <<>> THEN seg ELSE parseIn \o <<",">> \o seg
    /\ UNCHANGED <<regVars, th, rel, proc, calls, releaseCalls, parseOut, parsed>>

\* ... and is then parsed by the same lines 150-161.
SegNext == ParseTypeSegment \/ ParseRun

SegSpec == Init /\ [][SegNext]_vars

\* ====================================================== the claims
Done(t) == th[t].pc = "done"

\* No release_handles run has started: no atexit hook was run, none is running.
TeardownNotRun ==
    /\ proc = "running"
    /\ rel.pc = "idle"
    /\ releaseCalls = 0
    /\ dlcloseLog = <<>>

RegisteredSet ==
    { loadedLibrariesHandles_[i] : i \in 1..Len(loadedLibrariesHandles_) }

(* C1: over any number of create calls, of both overloads and from any     *)
(* threads, isShutdownHookRegistered_ goes from false to true at most once *)
(* and never back, and atexit(release_handles) is called at most once,     *)
(* for as long as the process lives.                                       *)
C1_HookRegisteredOnce ==
    [][ Alive' => /\ (isShutdownHookRegistered_ => isShutdownHookRegistered_')
                  /\ atexitCalls' <= 1
                  /\ (isShutdownHookRegistered_' <=> atexitCalls' = 1) ]_vars

\* Both threads have completed a create call and the hook was registered once.
C1_Witness ==
    /\ \A t \in Threads : Done(t)
    /\ isShutdownHookRegistered_
    /\ atexitCalls = 1

(* C2: once all create calls have completed and teardown has not run, the  *)
(* registry holds exactly one entry per successful dlopen: none lost, none *)
(* extra, none twice.                                                      *)
C2_RegistryCountsLoads ==
    ((\A t \in Threads : th[t].pc \in {"idle", "done"}) /\ TeardownNotRun)
        => /\ Len(loadedLibrariesHandles_) = opens
           /\ RegisteredSet = 1..opens

\* Two threads have completed calls, one on an unloadable path and one on a
\* loadable one, and the registry holds the loaded handles.
C2_Witness ==
    /\ TeardownNotRun
    /\ \E t, u \in Threads :
          /\ Done(t) /\ ~Loadable(th[t].path)
          /\ Done(u) /\ Loadable(th[u].path)
    /\ opens >= 1
    /\ Len(loadedLibrariesHandles_) = opens

(* C3: every handle that enters the collection is eventually passed to     *)
(* dlclose by the teardown release.  Stated on the state in which exit()   *)
(* has run every registered hook and no other will be registered (the flag *)
(* is set): from there on nothing calls dlclose, so every handle in the    *)
(* collection must already have been passed to it.                         *)
C3_EveryHandleReleased ==
    (/\ proc = "exiting"
     /\ hooksPending = 0
     /\ rel.pc = "idle"
     /\ isShutdownHookRegistered_)
        => RegisteredSet \subseteq Closed

(* C4: no thread calls dlsym on, or invokes an entrypoint obtained from, a *)
(* handle that release_handles has already passed to dlclose.              *)
C4_NoUseAfterRelease ==
    \A t \in Threads : ~th[t].usedReleased

(* C5: a run of release_handles passes every registered entry to dlclose   *)
(* exactly once and leaves the collection empty: when it is about to       *)
(* return it has made as many dlclose calls as there were entries, the     *)
(* collection is empty, no handle was ever closed twice, and with every    *)
(* create call completed each successful load has been closed; a second    *)
(* run with no load in between finds no entry and closes nothing.          *)
C5_ReleaseUnloadsEachOnce ==
    /\ \A i, j \in 1..Len(dlcloseLog) : i # j => dlcloseLog[i] # dlcloseLog[j]
    /\ rel.pc = "r_unlock" =>
          /\ loadedLibrariesHandles_ = <<>>
          /\ rel.closedNow = rel.n0
          /\ ((\A t \in Threads : th[t].pc \in {"idle", "done"})
                 => Len(dlcloseLog) = opens)

\* A second run of release_handles, after a first one that unloaded two
\* handles, is about to return having found nothing to unload.
C5_Witness ==
    /\ rel.pc = "r_unlock"
    /\ releaseCalls = 2
    /\ rel.n0 = 0
    /\ rel.closedNow = 0
    /\ Len(dlcloseLog) = 2
    /\ opens = 2

(* C6: when dlopen fails, create (either overload) returns the absent      *)
(* strategy, has called neither dlsym nor a plugin constructor, and has    *)
(* appended nothing to the handle collection.                              *)
C6_LoadFailureIsAbsent ==
    \A t \in Threads :
        (Done(t) /\ ~Loadable(th[t].path))
            => /\ th[t].result = NullAuth
               /\ th[t].resolved = <<>>
               /\ th[t].ctors = <<>>
               /\ th[t].regs = 0
               /\ th[t].loads = 1

\* A string-parameter call and a map-parameter call on an unloadable path
\* have both returned.
C6_Witness ==
    \E t, u \in Threads :
        /\ Done(t) /\ th[t].entry = "str" /\ ~Loadable(th[t].path)
        /\ Done(u) /\ th[u].entry = "map" /\ ~Loadable(th[u].path)

\* A loadable module that exports createFromMap and not create.
MapOnly(p) == Loadable(p) /\ ~Exports(p, "create") /\ Exports(p, "createFromMap")

(* C7: on a loadable module exporting only createFromMap, create(path, s)  *)
(* invokes createFromMap exactly once, with the map parsed from s, invokes *)
(* no other constructor, and returns what create(path, parse(s)) returns;  *)
(* for s = "k:v" the map is {"k": "v"}.                                    *)
C7_FallbackEqualsMapCreate ==
    \A t \in Threads :
        (Done(t) /\ th[t].entry = "str" /\ MapOnly(th[t].path))
            => /\ th[t].ctors = << [sym |-> "createFromMap", s |-> <<>>,
                                    m |-> ParamsFromString(th[t].str)] >>
               /\ th[t].result.ok
               /\ th[t].result.sym = "createFromMap"
               /\ th[t].result.m = ParamsFromString(th[t].str)
               /\ (th[t].str = <<"k", ":", "v">>
                      => th[t].result.m = { << <<"k">>, <<"v">> >> })
               /\ \A u \in Threads :
                     (/\ Done(u) /\ th[u].entry = "map"
                      /\ th[u].path = th[t].path
                      /\ th[u].params = ParamsFromString(th[t].str))
                        => th[u].result = th[t].result

\* create(path, "k:v") and create(path, {"k": "v"}) have both returned, on a
\* module exporting only createFromMap, with the same strategy.
C7_Witness ==
    \E t, u \in Threads :
        /\ Done(t) /\ th[t].entry = "str" /\ MapOnly(th[t].path)
        /\ th[t].str = <<"k", ":", "v">>
        /\ Done(u) /\ th[u].entry = "map" /\ th[u].path = th[t].path
        /\ th[u].params = { << <<"k">>, <<"v">> >> }
        /\ th[u].result = th[t].result
        /\ th[t].result.ok

\* A loadable module that exports neither entrypoint.
ExportsNeither(p) ==
    p \in Paths /\ Loadable(p) /\ ~Exports(p, "create") /\ ~Exports(p, "createFromMap")

(* C8: on a loadable module exporting neither create nor createFromMap,    *)
(* create returns the absent strategy for every parameter string and every *)
(* parameter map, and no plugin constructor is invoked.                    *)
C8_NoEntrypointIsAbsent ==
    \A t \in Threads :
        (Done(t) /\ ExportsNeither(th[t].path))
            => /\ th[t].result = NullAuth
               /\ th[t].ctors = <<>>

\* A string-parameter call and a map-parameter call on such a module have
\* both returned, each after looking for its entrypoints.
C8_Witness ==
    \E t, u \in Threads :
        /\ Done(t) /\ th[t].entry = "str" /\ ExportsNeither(th[t].path)
        /\ th[t].resolved = <<"create", "createFromMap">>
        /\ Done(u) /\ th[u].entry = "map" /\ ExportsNeither(th[u].path)
        /\ th[u].resolved = <<"createFromMap">>

(* C10: a plugin constructor that returns NULL is propagated as the absent *)
(* strategy: whenever the constructor a call invoked returned NULL the     *)
(* call returns the absent strategy, and when that constructor was the     *)
(* module's create the call has neither looked for createFromMap nor       *)
(* loaded the module again.                                                *)
C10_NullCtorPropagated ==
    \A t \in Threads :
        (Done(t) /\ th[t].ctors # <<>> /\ CtorReturnsNull(th[t].path))
            => /\ th[t].result = NullAuth
               /\ Len(th[t].ctors) = 1
               /\ (th[t].ctors[1].sym = "create"
                      => /\ th[t].resolved = <<"create">>
                         /\ th[t].loads = 1)

\* A map-parameter call whose createFromMap returned NULL and a
\* string-parameter call whose create returned NULL have both returned.
C10_Witness ==
    \E t, u \in Threads :
        /\ Done(t) /\ th[t].entry = "str" /\ CtorReturnsNull(th[t].path)
        /\ th[t].ctors = << [sym |-> "create", s |-> th[t].str, m |-> {}] >>
        /\ Done(u) /\ th[u].entry = "map" /\ CtorReturnsNull(th[u].path)
        /\ Len(th[u].ctors) = 1
        /\ th[u].ctors[1].sym = "createFromMap"

\* ---- the parameter grammar, stated on the string itself (not with Split)
\* The position before each comma-delimited segment of s, and the segment.
SegStarts(s) == {0} \cup { i \in 1..Len(s) : s[i] = "," }

SegEnd(s, a) ==
    LET later == { i \in 1..Len(s) : i > a /\ s[i] = "," }
    IN  IF later = {} THEN Len(s) + 1
        ELSE CHOOSE i \in later : \A j \in later : i <= j

Segment(s, a) == SubSeq(s, a + 1, SegEnd(s, a) - 1)

Colons(seg) == { i \in 1..Len(seg) : seg[i] = ":" }
OneColon(seg) == Cardinality(Colons(seg)) = 1
KeyOf(seg) == SubSeq(seg, 1, (CHOOSE i \in Colons(seg) : TRUE) - 1)
ValueOf(seg) == SubSeq(seg, (CHOOSE i \in Colons(seg) : TRUE) + 1, Len(seg))

\* A segment with exactly one colon, a non-empty key and a non-empty value.
WellFormed(seg) == OneColon(seg) /\ KeyOf(seg) # <<>> /\ ValueOf(seg) # <<>>

(* C9 as claimed: the parsed map's entries are exactly the segments that   *)
(* split on ':' into two non-empty parts; every other segment (no colon,   *)
(* several colons, empty key, empty value) is dropped.                     *)
C9_OnlyNonEmptyPairsKept ==
    parsed =>
        parseOut = { <<KeyOf(Segment(parseIn, a)), ValueOf(Segment(parseIn, a))>> :
                        a \in { b \in SegStarts(parseIn) :
                                   WellFormed(Segment(parseIn, b)) } }

(* C9 as amended: a segment is accepted exactly when it holds one colon,   *)
(* its key and its value may be empty; segments with no colon or several   *)
(* are dropped; the map's entries are the accepted segments, the last one  *)
(* standing for a key that several of them share.  "b,e:1:2,o:y" gives     *)
(* {"o": "y"} only.                                                        *)
C9_OneColonSegmentsKept ==
    /\ parsed =>
          parseOut =
             { <<KeyOf(Segment(parseIn, a)), ValueOf(Segment(parseIn, a))>> :
                  a \in { b \in SegStarts(parseIn) :
                             /\ OneColon(Segment(parseIn, b))
                             /\ ~ \E c \in SegStarts(parseIn) :
                                     /\ c > b
                                     /\ OneColon(Segment(parseIn, c))
                                     /\ KeyOf(Segment(parseIn, c))
                                            = KeyOf(Segment(parseIn, b)) } }
    /\ ParamsFromString(<<"b", ",", "e", ":", "1", ":", "2", ",", "o", ":", "y">>)
          = { << <<"o">>, <<"y">> >> }

\* "k:,v" has been parsed: the segment with the empty value is kept, the
\* segment without a colon is dropped.
C9_Witness ==
    /\ parsed
    /\ parseIn = <<"k", ":", ",", "v">>
    /\ parseOut = { << <<"k">>, <<>> >> }

\* ---------------------------------------------------------------- C11
\* The capability record of a strategy that carries no credentials.
NoCredentials ==
    [hasDataForTls      |-> FALSE, getTlsCertificates |-> "none",
     getTlsPrivateKey   |-> "none",
     hasDataForHttp     |-> FALSE, getHttpAuthType    |-> "none",
     getHttpHeaders     |-> "none",
     hasDataFromCommand |-> FALSE, getCommandData     |-> "none"]

\* C11: every call of AuthFactory::Disabled(), whatever the registry holds and
\* whatever ran before, returns a non-null strategy whose method name is
\* "none", whose capability predicates (tls, http, command) are all false and
\* whose data accessors all answer the sentinel "none".
C11_DisabledIsNone ==
    \A t \in Threads :
        (Done(t) /\ th[t].entry = "disabled") =>
            /\ th[t].result.ok
            /\ MethodNameOf(th[t].result) = "none"
            /\ DataOf(th[t].result) = NoCredentials

\* Disabled() has returned while the registry holds a module, the hook is
\* registered and another create call is under way.
C11_Witness ==
    \E t \in Threads : \E u \in Threads \ {t} :
        /\ Done(t) /\ th[t].entry = "disabled"
        /\ th[t].result.ok
        /\ loadedLibrariesHandles_ # <<>>
        /\ isShutdownHookRegistered_
        /\ th[u].pc \in {"s_dlsym", "m_dlsym"}

\* ---------------------------------------------------------------- C12
\* Where a thread is inside the module-load operation: dlopen, lines 139, 177.
InDlopen(t) == th[t].pc \in {"s_dlopen", "m_dlopen"}

\* Where a thread is inside a block that starts with lock_guard lock(mutex):
\* the hook blocks (131-137, 169-175), the append of the string path
\* (141-144) and the block of the map path from its append on (179-186).
InLockedBlock(t) ==
    th[t].pc \in {"s_hook", "s_push", "m_hook", "m_push", "m_dlsym", "m_invoke"}

\* C12 as stated: loading is serialized, no two threads are inside dlopen at
\* the same time.
C12_LoadsSerialized ==
    \A t \in Threads : \A u \in Threads \ {t} : ~(InDlopen(t) /\ InDlopen(u))

\* C12, amended: dlopen runs without the mutex; what the mutex serializes is
\* the hook check and the append (with what follows it on the map path), so
\* at most one thread at a time is inside one of those blocks.
C12_OnlyLockedBlocksSerialized ==
    /\ \A t \in Threads : InDlopen(t) => mutex # t
    /\ \A t \in Threads : \A u \in Threads \ {t} :
           ~(InLockedBlock(t) /\ InLockedBlock(u))

\* Two threads are inside dlopen at once, for different modules, and nobody
\* holds the mutex.
C12_Witness ==
    \E t \in Threads : \E u \in Threads \ {t} :
        /\ InDlopen(t) /\ InDlopen(u)
        /\ th[t].path # th[u].path
        /\ Loadable(th[t].path) /\ Loadable(th[u].path)
        /\ mutex = Free

\* ---------------------------------------------------------------- C13
\* The main thread is inside release_handles and has taken the mutex.
InRelease == rel.pc \in {"r_loop", "r_unlock"}

\* C13: every read or write of loadedLibrariesHandles_ and of
\* isShutdownHookRegistered_ is made by a thread that holds the mutex: a
\* thread is inside a block that accesses them (the hook check, the append,
\* the loop and clear of release_handles) only as the holder of the mutex, a
\* step changes the collection, the flag or what was passed to dlclose only
\* if it is a step of the holder, and so release_handles never runs together
\* with an append or with another run of itself.
C13_RegistryAccessUnderMutex ==
    /\ [](/\ \A t \in Threads : InLockedBlock(t) => mutex = t
          /\ InRelease => mutex = MainThread
          /\ \A t \in Threads : ~(InRelease /\ th[t].pc \in {"s_push", "m_push"}))
    /\ [][ (/\ Alive'
            /\ \/ loadedLibrariesHandles_' # loadedLibrariesHandles_
               \/ isShutdownHookRegistered_' # isShutdownHookRegistered_
               \/ dlcloseLog' # dlcloseLog)
           => \/ mutex \in Threads /\ th'[mutex] # th[mutex] /\ rel' = rel
              \/ mutex = MainThread /\ rel' # rel /\ th' = th ]_vars

\* release_handles is inside its loop, holding the mutex, while one thread
\* waits for the mutex to append its handle and the other to check the flag.
C13_Witness ==
    /\ rel.pc = "r_loop"
    /\ mutex = MainThread
    /\ loadedLibrariesHandles_ # <<>>
    /\ \E t \in Threads : \E u \in Threads \ {t} :
           /\ th[t].pc \in {"s_lock2", "m_lock2"}
           /\ th[u].pc \in {"s_lock1", "m_lock1"}

\* ---------------------------------------------------------------- C14
\* Some create call has called dlopen, or is about to with its hook check
\* behind it.
LoadAttempted ==
    \/ opens > 0
    \/ \E t \in Threads : th[t].loads > 0 \/ InDlopen(t)

\* C14: the teardown hook is registered before any loading: whenever a create
\* call has attempted a module load, and so whenever the collection is
\* non-empty, isShutdownHookRegistered_ is true and atexit(release_handles)
\* has been called; within one call every dlopen comes after a hook check.
C14_HookBeforeLoad ==
    /\ (LoadAttempted \/ loadedLibrariesHandles_ # <<>>) =>
           (isShutdownHookRegistered_ /\ atexitCalls >= 1)
    /\ \A t \in Threads :
           /\ th[t].loads <= th[t].hooks
           /\ InDlopen(t) => th[t].hooks = th[t].loads + 1

\* A call whose only load failed has returned (nothing was ever registered),
\* while another call has registered a module.
C14_Witness ==
    /\ isShutdownHookRegistered_
    /\ atexitCalls = 1
    /\ \E t \in Threads : \E u \in Threads \ {t} :
           /\ Done(t) /\ th[t].loads = 1 /\ ~Loadable(th[t].path)
           /\ th[u].regs = 1
           /\ loadedLibrariesHandles_ # <<>>

\* ---------------------------------------------------------------- C15
\* C15: a returned call of the string overload on a module that exports
\* create has invoked that entrypoint exactly once, with the raw string, and
\* returns its result; the string was not parsed, createFromMap was neither
\* resolved nor invoked, and the module was loaded and registered once.
C15_CreateEntrypointOnly ==
    \A t \in Threads :
        (Done(t) /\ th[t].entry = "str" /\ Loadable(th[t].path)
                 /\ Exports(th[t].path, "create")) =>
            /\ th[t].ctors = << [sym |-> "create", s |-> th[t].str, m |-> {}] >>
            /\ th[t].result = PluginCtor(th[t].path, "create", th[t].str, {})
            /\ th[t].params = {}
            /\ th[t].resolved = << "create" >>
            /\ th[t].loads = 1
            /\ th[t].regs = 1

\* ---------------------------------------------------------------- C16
\* The string overload was called on a module that loads but has no create
\* symbol, and the call has returned.
FallbackDone(t) ==
    /\ Done(t)
    /\ th[t].entry = "str"
    /\ Loadable(th[t].path)
    /\ ~Exports(th[t].path, "create")

\* C16: one call of the string overload that falls back to the map overload
\* loads the module twice and appends two entries; the hook check runs a
\* second time in the delegated call and atexit is still called only once.
C16_FallbackLoadsTwice ==
    \A t \in Threads :
        FallbackDone(t) =>
            /\ th[t].loads = 2
            /\ th[t].regs = 2
            /\ th[t].hooks = 2
            /\ th[t].resolved = << "create", "createFromMap" >>
            /\ atexitCalls = 1
            /\ isShutdownHookRegistered_
            /\ TeardownNotRun => Len(loadedLibrariesHandles_) >= 2

\* The only call so far was a fallback call: its two handles are the whole
\* collection and the hook was registered once.
C16_Witness ==
    \E t \in Threads :
        /\ FallbackDone(t)
        /\ calls = 1
        /\ th[t].hooks = 2
        /\ Len(loadedLibrariesHandles_) = 2
        /\ loadedLibrariesHandles_[1] # loadedLibrariesHandles_[2]
        /\ atexitCalls = 1

\* ---------------------------------------------------------------- C17
\* hs is an initial part of hs2.
IsPrefix(hs, hs2) == Len(hs) <= Len(hs2) /\ SubSeq(hs2, 1, Len(hs)) = hs

\* The step is one of release_handles: the main thread holds the mutex and moves.
ReleaseHandlesStep == mutex = MainThread /\ rel' # rel

\* The step is a call of AuthFactory::Disabled() by thread t.
DisabledStep(t) == th[t].pc = "idle" /\ th'[t].entry = "disabled"

\* C17: while the process lives, a step that is not one of release_handles
\* removes no entry from the collection and passes no handle to dlclose (and
\* this when dlsym fails or the constructor returns null just as well), and
\* a call of Disabled() leaves the collection and the hook flag as they were.
C17_OnlyReleaseRemoves ==
    [][ Alive' =>
          /\ ~ReleaseHandlesStep =>
                 /\ IsPrefix(loadedLibrariesHandles_, loadedLibrariesHandles_')
                 /\ dlcloseLog' = dlcloseLog
          /\ \A t \in Threads :
                 DisabledStep(t) =>
                     /\ loadedLibrariesHandles_' = loadedLibrariesHandles_
                     /\ isShutdownHookRegistered_' = isShutdownHookRegistered_ ]_vars

\* With no teardown run: a call whose symbol resolution failed and a call
\* whose constructor returned null have both returned an absent strategy, and
\* their handles are still registered.
C17_Witness ==
    /\ TeardownNotRun
    /\ \E t \in Threads : \E u \in Threads \ {t} :
           /\ Done(t) /\ ExportsNeither(th[t].path) /\ ~th[t].result.ok
           /\ Done(u) /\ CtorReturnsNull(th[u].path) /\ th[u].ctors # <<>> /\ ~th[u].result.ok
           /\ Len(loadedLibrariesHandles_) = th[t].regs + th[u].regs
           /\ th[t].regs >= 1 /\ th[u].regs >= 1

\* ---------------------------------------------------------------- C18
\* Thread t is inside a create call that has not returned yet.
InCall(t) == th[t].pc \notin {"idle", "done"}

\* Thread t waits for the registry mutex.
WaitsForMutex(t) == th[t].pc \in {"s_lock1", "s_lock2", "m_lock1", "m_lock2"}

\* C18: under fair scheduling every create call that has started runs to its
\* return (unless the process ends first) and the main thread leaves
\* release_handles; no thread waits for a mutex it holds itself, the fallback
\* of the string path included.
C18_CreateRunsToCompletion ==
    /\ \A t \in Threads : InCall(t) ~> (Done(t) \/ ~Alive)
    /\ (rel.pc # "idle") ~> (rel.pc = "idle")
    /\ [](\A t \in Threads : WaitsForMutex(t) => mutex # t)

\* A thread in the fallback of the string path waits for the mutex at the
\* entry of the map path while the other thread holds it.
C18_Witness ==
    \E t \in Threads : \E u \in Threads \ {t} :
        /\ th[t].entry = "str"
        /\ th[t].pc = "m_lock1"
        /\ th[t].regs = 1
        /\ mutex = u

\* ---------------------------------------------------------------- C19
\* Thread t is between its append and its return on the map path: about to
\* call dlsym(handle, "createFromMap") or the createFromMap constructor.
AfterMapAppend(t) == th[t].pc \in {"m_dlsym", "m_invoke"}

\* Thread t is between its append and its return on the string path: about
\* to call dlsym(handle, "create") or the create entrypoint.
AfterStrAppend(t) == th[t].pc \in {"s_dlsym", "s_invoke"}

\* C19: on the map path the mutex is held from the append through dlsym and
\* the createFromMap call, so at most one thread is inside a createFromMap
\* constructor and release_handles is not inside its loop meanwhile; on the
\* string path the mutex was released after the append, so a thread about to
\* call create does not hold it (and such calls may overlap with each other
\* and with release_handles: C19_Witness).
C19_MapPathHoldsMutex ==
    /\ \A t \in Threads : AfterMapAppend(t) => (mutex = t /\ ~InRelease)
    /\ \A t \in Threads : \A u \in Threads \ {t} :
           ~(th[t].pc = "m_invoke" /\ th[u].pc = "m_invoke")
    /\ \A t \in Threads : AfterStrAppend(t) => mutex # t

\* Both threads are about to invoke the create entrypoint while
\* release_handles is inside its loop.
C19_Witness ==
    /\ \A t \in Threads : th[t].pc = "s_invoke"
    /\ rel.pc = "r_loop"
    /\ mutex = MainThread

\* ---------------------------------------------------------------- C20
\* The starts of the segments of s that satisfy Ok and have the key k, and
\* the last of them.
StartsWithKey(s, k, Ok(_)) ==
    { a \in SegStarts(s) : Ok(Segment(s, a)) /\ KeyOf(Segment(s, a)) = k }

LastStart(starts) == CHOOSE a \in starts : \A b \in starts : b <= a

\* The keys of the segments of s that satisfy Ok.
KeysOf(s, Ok(_)) == { KeyOf(Segment(s, a)) : a \in { b \in SegStarts(s) : Ok(Segment(s, b)) } }

\* The entries of the map m under the key k.
EntriesFor(m, k) == { p \in m : p[1] = k }

\* C20 as stated, a well-formed segment being one with a colon between a
\* non-empty key and a non-empty value: a key shared by several well-formed
\* segments has one entry, with the value of the last of those segments; the
\* empty string gives the empty map.
C20_LastWellFormedWins ==
    parsed =>
        /\ \A k \in KeysOf(parseIn, WellFormed) :
               LET starts == StartsWithKey(parseIn, k, WellFormed)
               IN  Cardinality(starts) >= 2 =>
                       EntriesFor(parseOut, k)
                           = { <<k, ValueOf(Segment(parseIn, LastStart(starts)))>> }
        /\ parseIn = <<>> => parseOut = {}

\* C20, amended: a key shared by several accepted segments (segments with
\* exactly one colon, empty key or value included) has one entry, with the
\* value of the last accepted segment with that key; so a later "k:" takes
\* the place of an earlier "k:v".  The empty string gives the empty map.
C20_LastAcceptedWins ==
    /\ parsed =>
          /\ \A k \in KeysOf(parseIn, OneColon) :
                 LET starts == StartsWithKey(parseIn, k, OneColon)
                 IN  EntriesFor(parseOut, k)
                         = { <<k, ValueOf(Segment(parseIn, LastStart(starts)))>> }
          /\ parseIn = <<>> => parseOut = {}
    /\ ParamsFromString(<<>>) = {}

\* "k:v,v:k,k:k" has been parsed: the key k, shared by the first and the
\* third segment, has the value of the third.
C20_Witness ==
    /\ parsed
    /\ parseIn = <<"k", ":", "v", ",", "v", ":", "k", ",", "k", ":", "k">>
    /\ parseOut = { << <<"k">>, <<"k">> >>, << <<"v">>, <<"k">> >> }

============================================================================
